---- MODULE Spec2Model ----
(***************************************************************************)
(* Model of aiida-phonopy:                                                 *)
(*   - PhononPhonopy (aiida_phonopy/workchains/phonon.py): the outline of  *)
(*     the workchain, its steps, the processes it submits and their        *)
(*     completion, the context (ctx) and the emitted outputs;              *)
(*   - BasePhonopyCalculation.prepare_for_submission                       *)
(*     (aiida_phonopy/calcs/base.py): the BORN file and the command lines. *)
(*                                                                         *)
(* The host engine is modelled by what the steps ask of it: a process      *)
(* handed to ToContext / to_context is awaited, and the next step of the   *)
(* outline starts only when no awaited process is left; an exception       *)
(* raised by a step ends the run.                                          *)
(***************************************************************************)
EXTENDS Integers, Sequences, FiniteSets, TLC

\* ------------------------------------------------------------------ bounds
\* Largest number of displaced supercells phonopy returns in the model.
MaxDisp == 2
\* Largest number of commands a subclass prepares in _create_additional_files.
MaxCmds == 2

VARIABLES
    inputs,       \* self.inputs of the workchain (fixed during a run)
    pc,           \* the step of the outline to run next, "finished" or "excepted"
    ctx,          \* self.ctx: key -> value
    processes,    \* submitted processes: ctx key -> [kind, inp, status]
    awaitables,   \* ctx keys of the processes the engine still waits for
    outputs,      \* the calls of self.out, in order: <<[name, value], ...>>
    error,        \* the exception that ended the run, or NoError
    trace,        \* the steps executed so far, in order
    calc          \* state of one BasePhonopyCalculation.prepare_for_submission

wcvars == <<inputs, pc, ctx, processes, awaitables, outputs, error, trace>>
vars == <<inputs, pc, ctx, processes, awaitables, outputs, error, trace, calc>>

\* ----------------------------------------------------------------- helpers
EmptyDict == [k \in {} |-> k]

Has(d, k) == k \in DOMAIN d

\* dict d with key k set to v (Python d[k] = v)
Put(d, k, v) == [x \in (DOMAIN d) \cup {k} |-> IF x = k THEN v ELSE d[x]]

\* d updated with every key of e (Python d.update(e))
Update(d, e) == [x \in (DOMAIN d) \cup (DOMAIN e) |-> IF x \in DOMAIN e THEN e[x] ELSE d[x]]

NoError == [type |-> "none", msg |-> ""]

RuntimeError(m) == [type |-> "RuntimeError", msg |-> m]

TypeError(m) == [type |-> "TypeError", msg |-> m]

\* reading a missing attribute, as node.out.<name> of an output a process lacks
AttributeError(m) == [type |-> "AttributeError", msg |-> m]

\* "structure_{}".format(i)
Labels == <<"structure_0", "structure_1", "structure_2", "structure_3", "structure_4">>

StructureLabel(i) == Labels[i + 1]

\* ------------------------------------------------------------------ inputs
\* cell_matrices: an ArrayData, array name -> array (its shape and dtype)
SupercellArrays ==
    { [shape |-> s, dtype |-> t] : s \in {"vector3", "matrix3x3"}, t \in {"int", "float"} }

\* a primitive_matrix given by the user, and np.eye(3)
PrimitiveMatrixIn == <<<<0, 1, 1>>, <<1, 0, 1>>, <<1, 1, 0>>>>

Eye3 == <<<<1, 0, 0>>, <<0, 1, 0>>, <<0, 0, 1>>>>

CellMatricesChoices ==
    { Update(sc, pm) :
        sc \in {EmptyDict} \cup { Put(EmptyDict, "supercell_matrix", a) : a \in SupercellArrays },
        pm \in {EmptyDict, Put(EmptyDict, "primitive_matrix", PrimitiveMatrixIn)} }

\* phonon_settings given by the user: a dict over these keys
UserSettingKeys == {"mesh", "distance", "is_symmetry"}

UserSettingValue(k) == IF k = "mesh" THEN <<8, 8, 8>> ELSE [user |-> k]

PhononSettingsChoices ==
    { [k \in S |-> UserSettingValue(k)] : S \in SUBSET UserSettingKeys }

\* the optional inputs without a default (phonon.py 74-76)
OptionalInputs == {"code_string", "options", "phonon_settings"}

InputChoices ==
    { [structure |-> "input_structure",
       cell_matrices |-> cm,
       calculator_settings |-> "calculator_settings",
       present |-> p,
       phonon_settings |-> ps,
       is_nac |-> n, optimize |-> o, run_phonopy |-> r, remote_phonopy |-> m,
       pressure |-> "pressure", distance |-> "distance_in",
       symmetry_tolerance |-> "symmetry_tolerance_in"] :
        cm \in CellMatricesChoices, p \in SUBSET OptionalInputs,
        ps \in PhononSettingsChoices,
        n \in BOOLEAN, o \in BOOLEAN, r \in BOOLEAN, m \in BOOLEAN }

\* the defaults of the inputs that have one (phonon.py 77-90)
InputDefaults ==
    [is_nac |-> FALSE, optimize |-> TRUE, run_phonopy |-> FALSE, remote_phonopy |-> FALSE]

\* an absent phonon_settings has no content: one representative
ValidInputs ==
    { i \in InputChoices : "phonon_settings" \notin i.present => i.phonon_settings = EmptyDict }

\* ------------------------------------------------------ outline predicates
\* mutant: the optimization is always run
use_optimizeAlways == TRUE

use_optimize == inputs.optimize

\* mutant: the predicate copied from run_phonopy and not adapted
remote_phonopyCopied == inputs.run_phonopy

remote_phonopy == inputs.remote_phonopy

\* mutant: the phonopy stage is always entered
run_phonopyAlways == TRUE

run_phonopy == inputs.run_phonopy

\* mutant: the outline never takes the NAC branch
is_nacNever == FALSE

is_nac == inputs.is_nac

\* mutant: the outline with set_default_outputs and prepare_phonopy_inputs swapped
StepAfterOutputsLate(s) ==
    CASE s = "check_settings" ->
            IF inputs.optimize THEN "optimize" ELSE "set_unitcell"
      [] s = "optimize" -> "set_unitcell"
      [] s = "set_unitcell" -> "create_displacements"
      [] s = "create_displacements" -> "run_force_and_nac_calculations"
      [] s = "run_force_and_nac_calculations" -> "create_force_sets"
      [] s = "create_force_sets" ->
            IF inputs.is_nac THEN "create_nac_params" ELSE "prepare_phonopy_inputs"
      [] s = "create_nac_params" -> "prepare_phonopy_inputs"
      [] s = "prepare_phonopy_inputs" -> "set_default_outputs"
      [] s = "set_default_outputs" ->
            IF inputs.run_phonopy
            THEN IF inputs.remote_phonopy THEN "create_phonopy_builder"
                                          ELSE "run_phonopy_in_workchain"
            ELSE "finished"
      [] s = "create_phonopy_builder" -> "run_phonopy_remote"
      [] s = "run_phonopy_remote" -> "collect_data"
      [] s = "collect_data" -> "finished"
      [] s = "run_phonopy_in_workchain" -> "finished"

\* ----------------------------------------------------------------- outline
\* spec.outline(...): the step that follows step s
StepAfter(s) ==
    CASE s = "check_settings" ->
            IF use_optimize THEN "optimize" ELSE "set_unitcell"
      [] s = "optimize" -> "set_unitcell"
      [] s = "set_unitcell" -> "create_displacements"
      [] s = "create_displacements" -> "run_force_and_nac_calculations"
      [] s = "run_force_and_nac_calculations" -> "create_force_sets"
      [] s = "create_force_sets" ->
            IF is_nac THEN "create_nac_params" ELSE "set_default_outputs"
      [] s = "create_nac_params" -> "set_default_outputs"
      [] s = "set_default_outputs" -> "prepare_phonopy_inputs"
      [] s = "prepare_phonopy_inputs" ->
            IF run_phonopy
            THEN IF remote_phonopy THEN "create_phonopy_builder"
                                   ELSE "run_phonopy_in_workchain"
            ELSE "finished"
      [] s = "create_phonopy_builder" -> "run_phonopy_remote"
      [] s = "run_phonopy_remote" -> "collect_data"
      [] s = "collect_data" -> "finished"
      [] s = "run_phonopy_in_workchain" -> "finished"

\* The engine starts a step when it is the next of the outline and every
\* process handed to ToContext / to_context has completed.
Ready(s) == pc = s /\ awaitables = {}

\* The step returns normally.
Return(s) ==
    /\ pc' = StepAfter(s)
    /\ trace' = Append(trace, s)
    /\ error' = error

\* The step raises e: the run ends, nothing else changes.
Raise(s, e) ==
    /\ pc' = "excepted"
    /\ trace' = Append(trace, s)
    /\ error' = e
    /\ UNCHANGED <<ctx, processes, awaitables, outputs>>

\* self.submit(...): a new running process, known under ctx key k
Submitted(procs, k, kind, inp) ==
    Put(procs, k, [kind |-> kind, inp |-> inp, status |-> "running"])

\* self.out(name, value)
Out(outs, name, value) == Append(outs, [name |-> name, value |-> value])

\* ---------------------------------------------------------- check_settings
phonon_settings_dict ==
    IF "phonon_settings" \in inputs.present THEN inputs.phonon_settings ELSE EmptyDict

cell_keys == DOMAIN inputs.cell_matrices

SupercellMissing == "supercell_matrix" \notin cell_keys

\* np.diag(dim) for three numbers, np.array(dim) otherwise: the dtype is kept
smat ==
    LET dim == inputs.cell_matrices["supercell_matrix"]
    IN  IF dim.shape = "vector3"
        THEN [shape |-> "matrix3x3", dtype |-> dim.dtype, diag_of |-> dim]
        ELSE [shape |-> dim.shape, dtype |-> dim.dtype, array_of |-> dim]

SupercellNotInteger == smat.dtype # "int"

pmat ==
    IF "primitive_matrix" \in cell_keys
    THEN inputs.cell_matrices["primitive_matrix"]
    ELSE Eye3

\* mutant: `and` for `or`, the error only when both are absent
RemoteInputsMissingBoth ==
    /\ inputs.run_phonopy /\ inputs.remote_phonopy
    /\ ("code_string" \notin inputs.present /\ "options" \notin inputs.present)

RemoteInputsMissing ==
    /\ inputs.run_phonopy /\ inputs.remote_phonopy
    /\ ("code_string" \notin inputs.present \/ "options" \notin inputs.present)

\* mutant: every failure of check_settings raised as RuntimeError
CheckSettingsErrorAllRuntime ==
    IF "supercell_matrix" \notin DOMAIN inputs.cell_matrices
    THEN RuntimeError("supercell_matrix is not found in cell_matrices.")
    ELSE IF inputs.cell_matrices["supercell_matrix"].dtype # "int"
    THEN RuntimeError("supercell_matrix is not integer matrix.")
    ELSE IF /\ inputs.run_phonopy /\ inputs.remote_phonopy
            /\ ("code_string" \notin inputs.present \/ "options" \notin inputs.present)
    THEN RuntimeError("code_string and options have to be specified.")
    ELSE NoError

\* the exception check_settings raises, NoError when it raises none
CheckSettingsError ==
    IF SupercellMissing
    THEN RuntimeError("supercell_matrix is not found in cell_matrices.")
    ELSE IF SupercellNotInteger
    THEN TypeError("supercell_matrix is not integer matrix.")
    ELSE IF RemoteInputsMissing
    THEN RuntimeError("code_string and options have to be specified.")
    ELSE NoError

\* mutant: the default mesh is stored whatever the user gave
CheckedSettingsDefaultMesh ==
    LET d1 == Put(phonon_settings_dict, "supercell_matrix", [tolist |-> smat])
        d2 == Put(d1, "primitive_matrix", [astype_float_tolist |-> pmat])
        d3 == Put(d2, "mesh", <<20, 20, 20>>)
        d4 == Put(d3, "distance", [float |-> inputs.distance])
    IN  Put(d4, "symmetry_tolerance", [float |-> inputs.symmetry_tolerance])

\* mutant: distance is filled in like mesh, only when the user gave none
CheckedSettingsKeepsDistance ==
    LET d1 == Put(phonon_settings_dict, "supercell_matrix", [tolist |-> smat])
        d2 == Put(d1, "primitive_matrix", [astype_float_tolist |-> pmat])
        d3 == IF Has(d2, "mesh") THEN d2 ELSE Put(d2, "mesh", <<20, 20, 20>>)
        d4 == IF Has(d3, "distance") THEN d3 ELSE Put(d3, "distance", [float |-> inputs.distance])
    IN  Put(d4, "symmetry_tolerance", [float |-> inputs.symmetry_tolerance])

\* the dict stored in ctx.phonon_settings
CheckedSettings ==
    LET d1 == Put(phonon_settings_dict, "supercell_matrix", [tolist |-> smat])
        d2 == Put(d1, "primitive_matrix", [astype_float_tolist |-> pmat])
        d3 == IF Has(d2, "mesh") THEN d2 ELSE Put(d2, "mesh", <<20, 20, 20>>)
        d4 == Put(d3, "distance", [float |-> inputs.distance])
    IN  Put(d4, "symmetry_tolerance", [float |-> inputs.symmetry_tolerance])

\* mutant: ctx.phonon_settings stored from the user's dict before the checks
check_settingsStoresFirst ==
    /\ Ready("check_settings")
    /\ IF CheckSettingsError # NoError
       THEN /\ pc' = "excepted"
            /\ trace' = Append(trace, "check_settings")
            /\ error' = CheckSettingsError
            /\ ctx' = Put(ctx, "phonon_settings", phonon_settings_dict)
            /\ UNCHANGED <<processes, awaitables, outputs>>
       ELSE /\ ctx' = Put(ctx, "phonon_settings", CheckedSettings)
            /\ Return("check_settings")
            /\ UNCHANGED <<processes, awaitables, outputs>>
    /\ UNCHANGED <<inputs, calc>>

check_settings ==
    /\ Ready("check_settings")
    /\ IF CheckSettingsError # NoError
       THEN Raise("check_settings", CheckSettingsError)
       ELSE /\ ctx' = Put(ctx, "phonon_settings", CheckedSettings)
            /\ Return("check_settings")
            /\ UNCHANGED <<processes, awaitables, outputs>>
    /\ UNCHANGED <<inputs, calc>>

\* --------------------------------------------------- optimize, set_unitcell
\* mutant: the future of the optimization is not returned in ToContext
optimizeNoWait ==
    /\ Ready("optimize")
    /\ processes' = Submitted(processes, "optimized", "optimize",
                              [structure |-> inputs.structure,
                               calculator_settings |-> inputs.calculator_settings,
                               pressure |-> inputs.pressure])
    /\ awaitables' = awaitables
    /\ Return("optimize")
    /\ UNCHANGED <<inputs, ctx, outputs, calc>>

optimize ==
    /\ Ready("optimize")
    /\ processes' = Submitted(processes, "optimized", "optimize",
                              [structure |-> inputs.structure,
                               calculator_settings |-> inputs.calculator_settings,
                               pressure |-> inputs.pressure])
    /\ awaitables' = awaitables \cup {"optimized"}
    /\ Return("optimize")
    /\ UNCHANGED <<inputs, ctx, outputs, calc>>

\* mutant: the input structure is kept also after an optimization
set_unitcellKeepsInput ==
    /\ Ready("set_unitcell")
    /\ IF Has(ctx, "optimized") /\ ~Has(ctx["optimized"].out, "optimized_structure")
       THEN Raise("set_unitcell", AttributeError("optimized_structure"))
       ELSE /\ ctx' = Put(ctx, "final_structure", inputs.structure)
            /\ IF Has(ctx, "optimized")
               THEN outputs' = Out(outputs, "optimized_data",
                                   ctx["optimized"].out["optimized_structure_data"])
               ELSE outputs' = outputs
            /\ Return("set_unitcell")
            /\ UNCHANGED <<processes, awaitables>>
    /\ UNCHANGED <<inputs, calc>>

set_unitcell ==
    /\ Ready("set_unitcell")
    /\ IF Has(ctx, "optimized")
       THEN IF ~Has(ctx["optimized"].out, "optimized_structure")
            THEN Raise("set_unitcell", AttributeError("optimized_structure"))
            ELSE /\ ctx' = Put(ctx, "final_structure",
                               ctx["optimized"].out["optimized_structure"])
                 /\ outputs' = Out(outputs, "optimized_data",
                                   ctx["optimized"].out["optimized_structure_data"])
                 /\ Return("set_unitcell")
                 /\ UNCHANGED <<processes, awaitables>>
       ELSE /\ ctx' = Put(ctx, "final_structure", inputs.structure)
            /\ outputs' = outputs
            /\ Return("set_unitcell")
            /\ UNCHANGED <<processes, awaitables>>
    /\ UNCHANGED <<inputs, calc>>

\* ------------------------------------------------------ create_displacements
\* the cells phonopy derives from a unit cell
PrimitiveOf(structure) == [primitive_of |-> structure]

SupercellOf(structure, i) == [supercell_of |-> structure, displacement |-> i]

\* disp_dataset for n displaced supercells of ctx.final_structure
DispDataset(n) ==
    LET base == Put(Put(EmptyDict, "data_sets", [dataset_of |-> ctx["final_structure"],
                                                  distance |-> ctx["phonon_settings"]["distance"]]),
                    "number_of_displacements", n)
    IN  Update(base, [l \in {StructureLabel(i) : i \in 0..(n - 1)} |->
                        SupercellOf(ctx["final_structure"],
                                    CHOOSE i \in 0..(n - 1) : StructureLabel(i) = l)])

create_displacements ==
    /\ Ready("create_displacements")
    /\ \E n \in 1..MaxDisp :
          ctx' = Put(Put(ctx, "primitive_structure", PrimitiveOf(ctx["final_structure"])),
                     "disp_dataset", DispDataset(n))
    /\ Return("create_displacements")
    /\ UNCHANGED <<inputs, processes, awaitables, outputs, calc>>

\* --------------------------------------------- run_force_and_nac_calculations
\* generate_inputs(structure, calculator_settings, calc_type=...)
generate_inputs(structure, calc_type) ==
    [structure |-> structure,
     calculator_settings |-> inputs.calculator_settings,
     calc_type |-> calc_type]

NumberOfDisplacements == ctx["disp_dataset"]["number_of_displacements"]

\* the labels of the force calculations the loop submits
ForceLabels == { StructureLabel(i) : i \in 0..(NumberOfDisplacements - 1) }

\* mutant: the future of the first force calculation is not handed to to_context
ForceLabelsToContextButFirst ==
    { StructureLabel(i) : i \in 1..(ctx["disp_dataset"]["number_of_displacements"] - 1) }

\* the labels whose future the loop hands to self.to_context
ForceLabelsToContext == ForceLabels

run_force_and_nac_calculations ==
    /\ Ready("run_force_and_nac_calculations")
    /\ LET forces == [l \in ForceLabels |->
                        [kind |-> "forces",
                         inp |-> generate_inputs(ctx["disp_dataset"][l], "forces"),
                         status |-> "running"]]
           withForces == Update(processes, forces)
       IN  IF inputs.is_nac
           THEN /\ processes' = Submitted(withForces, "born_and_epsilon", "nac",
                                          generate_inputs(ctx["primitive_structure"], "nac"))
                /\ awaitables' = awaitables \cup ForceLabelsToContext \cup {"born_and_epsilon"}
           ELSE /\ processes' = withForces
                /\ awaitables' = awaitables \cup ForceLabelsToContext
    /\ Return("run_force_and_nac_calculations")
    /\ UNCHANGED <<inputs, ctx, outputs, calc>>

\* ------------------------------------------------------- process completion
\* the 'final' forces a force calculation may return
ForceArrays == {"forces_a", "forces_b"}

\* what a completed process of this kind may hold as outputs
PossibleOutputs(kind) ==
    CASE kind = "optimize" ->
            { EmptyDict,
              Put(Put(EmptyDict, "optimized_structure", "optimized_structure"),
                  "optimized_structure_data", "optimized_structure_data") }
      [] kind = "forces" ->
            {EmptyDict, Put(EmptyDict, "output_forces", Put(EmptyDict, "initial", "forces_0"))}
            \cup { Put(EmptyDict, "output_forces", Put(EmptyDict, "final", f)) : f \in ForceArrays }
      [] kind = "nac" ->
            { EmptyDict,
              Put(Put(EmptyDict, "output_born_charges", "born_charges"),
                  "output_dielectrics", "dielectrics") }
      [] kind = "phonopy" ->
            { EmptyDict,
              [n \in {"force_constants", "thermal_properties", "dos", "band_structure"} |->
                 <<"remote", n>>] }

\* A running process completes; the engine stores an awaited one in ctx.
ProcessCompletes ==
    /\ \E k \in DOMAIN processes :
          /\ processes[k].status = "running"
          /\ \E out \in PossibleOutputs(processes[k].kind) :
                /\ processes' = [processes EXCEPT ![k].status = "done"]
                /\ IF k \in awaitables
                   THEN ctx' = Put(ctx, k, [inp |-> processes[k].inp, out |-> out])
                   ELSE ctx' = ctx
          /\ awaitables' = awaitables \ {k}
    /\ UNCHANGED <<inputs, pc, outputs, error, trace, calc>>

\* --------------------------------------------------------- create_force_sets
\* whether the forces of a force calculation are retrievable
ForcesRetrievable(out_dict) ==
    /\ Has(out_dict, "output_forces")
    /\ "final" \in DOMAIN out_dict["output_forces"]

\* mutant: each array put at the front of the list
RECURSIVE CollectedForcesReversed(_)
CollectedForcesReversed(n) ==
    IF n = 0 THEN <<>>
    ELSE LET out_dict == ctx[StructureLabel(n - 1)].out
         IN  IF Has(out_dict, "output_forces") /\ "final" \in DOMAIN out_dict["output_forces"]
             THEN <<out_dict["output_forces"]["final"]>> \o CollectedForcesReversed(n - 1)
             ELSE CollectedForcesReversed(n - 1)

\* the list `forces` after the first n rounds of the loop
RECURSIVE CollectedForces(_)
CollectedForces(n) ==
    IF n = 0 THEN <<>>
    ELSE LET out_dict == ctx[StructureLabel(n - 1)].out
         IN  IF ForcesRetrievable(out_dict)
             THEN Append(CollectedForces(n - 1), out_dict["output_forces"]["final"])
             ELSE CollectedForces(n - 1)

\* mutant: the error only when no forces at all were collected
ForcesMissingAll(forces) == Len(forces) = 0

\* len(forces) != number_of_displacements
ForcesMissing(forces) == Len(forces) # NumberOfDisplacements

\* mutant: force constants are stored in ctx beside the force sets
create_force_setsAlsoConstants ==
    /\ Ready("create_force_sets")
    /\ IF \E l \in ForceLabels : ~Has(ctx, l)
       THEN Raise("create_force_sets", [type |-> "KeyError", msg |-> "structure"])
       ELSE LET forces == CollectedForces(NumberOfDisplacements)
            IN  IF ForcesMissing(forces)
                THEN Raise("create_force_sets", RuntimeError("Forces could not be retrieved."))
                ELSE /\ ctx' = Put(Put(ctx, "force_sets",
                                       [data_sets |-> ctx["disp_dataset"]["data_sets"],
                                        forces |-> forces]),
                                   "force_constants", [data |-> "force_constants_early"])
                     /\ Return("create_force_sets")
                     /\ UNCHANGED <<processes, awaitables, outputs>>
    /\ UNCHANGED <<inputs, calc>>

create_force_sets ==
    /\ Ready("create_force_sets")
    /\ IF \E l \in ForceLabels : ~Has(ctx, l)
       THEN Raise("create_force_sets", [type |-> "KeyError", msg |-> "structure"])
       ELSE LET forces == CollectedForces(NumberOfDisplacements)
            IN  IF ForcesMissing(forces)
                THEN Raise("create_force_sets", RuntimeError("Forces could not be retrieved."))
                ELSE /\ ctx' = Put(ctx, "force_sets",
                                   [data_sets |-> ctx["disp_dataset"]["data_sets"],
                                    forces |-> forces])
                     /\ Return("create_force_sets")
                     /\ UNCHANGED <<processes, awaitables, outputs>>
    /\ UNCHANGED <<inputs, calc>>

\* --------------------------------------- create_nac_params, default outputs
create_nac_params ==
    /\ Ready("create_nac_params")
    /\ IF ~Has(ctx["born_and_epsilon"].out, "output_born_charges")
       THEN Raise("create_nac_params", AttributeError("output_born_charges"))
       ELSE /\ ctx' = Put(ctx, "nac_data",
                  [born_charges |-> ctx["born_and_epsilon"].out["output_born_charges"],
                   epsilon |-> ctx["born_and_epsilon"].out["output_dielectrics"],
                   structure |-> ctx["born_and_epsilon"].inp.structure])
            /\ Return("create_nac_params")
            /\ UNCHANGED <<processes, awaitables, outputs>>
    /\ UNCHANGED <<inputs, calc>>

set_default_outputs ==
    /\ Ready("set_default_outputs")
    /\ LET o1 == Out(outputs, "final_structure", ctx["final_structure"])
           o2 == Out(o1, "force_sets", ctx["force_sets"])
       IN  outputs' = IF Has(ctx, "nac_data") THEN Out(o2, "nac_data", ctx["nac_data"]) ELSE o2
    /\ Return("set_default_outputs")
    /\ UNCHANGED <<inputs, ctx, processes, awaitables, calc>>

prepare_phonopy_inputs ==
    /\ Ready("prepare_phonopy_inputs")
    /\ ctx' = Put(ctx, "band_paths", [band_paths_of |-> ctx["primitive_structure"],
                                      band_resolution |-> 30])
    /\ Return("prepare_phonopy_inputs")
    /\ UNCHANGED <<inputs, processes, awaitables, outputs, calc>>

\* ------------------------------------------------------------ phonopy stage
\* mutant: force_sets passed whenever ctx holds it, also beside force_constants
PhonopyBuilderBoth ==
    LET b0 == Put(Put(Put(EmptyDict, "structure", ctx["final_structure"]),
                      "parameters", ctx["phonon_settings"]),
                  "options", "options_dict")
        b1 == IF Has(ctx, "force_constants")
              THEN Put(b0, "force_constants", ctx["force_constants"])
              ELSE b0
        b1b == IF Has(ctx, "force_sets") THEN Put(b1, "force_sets", ctx["force_sets"]) ELSE b1
        b2 == IF Has(ctx, "nac_data") THEN Put(b1b, "nac_data", ctx["nac_data"]) ELSE b1b
    IN  IF Has(ctx, "band_paths") THEN Put(b2, "bands", ctx["band_paths"]) ELSE b2

\* the builder create_phonopy_builder fills
PhonopyBuilder ==
    LET b0 == Put(Put(Put(EmptyDict, "structure", ctx["final_structure"]),
                      "parameters", ctx["phonon_settings"]),
                  "options", "options_dict")
        b1 == IF Has(ctx, "force_constants")
              THEN Put(b0, "force_constants", ctx["force_constants"])
              ELSE IF Has(ctx, "force_sets")
              THEN Put(b0, "force_sets", ctx["force_sets"])
              ELSE b0
        b2 == IF Has(ctx, "nac_data") THEN Put(b1, "nac_data", ctx["nac_data"]) ELSE b1
    IN  IF Has(ctx, "band_paths") THEN Put(b2, "bands", ctx["band_paths"]) ELSE b2

create_phonopy_builder ==
    /\ Ready("create_phonopy_builder")
    /\ IF "code_string" \notin inputs.present
       THEN Raise("create_phonopy_builder", AttributeError("code_string"))
       ELSE IF "options" \notin inputs.present
       THEN Raise("create_phonopy_builder", AttributeError("options"))
       ELSE IF ~Has(ctx, "force_sets") /\ ~Has(ctx, "force_constants")
       THEN Raise("create_phonopy_builder",
                  RuntimeError("Force sets and force constants were not found."))
       ELSE /\ ctx' = Put(ctx, "phonopy_builder", PhonopyBuilder)
            /\ Return("create_phonopy_builder")
            /\ UNCHANGED <<processes, awaitables, outputs>>
    /\ UNCHANGED <<inputs, calc>>

run_phonopy_remote ==
    /\ Ready("run_phonopy_remote")
    /\ processes' = Submitted(processes, "phonon_properties", "phonopy", ctx["phonopy_builder"])
    /\ awaitables' = awaitables \cup {"phonon_properties"}
    /\ Return("run_phonopy_remote")
    /\ UNCHANGED <<inputs, ctx, outputs, calc>>

\* mutant: dos and thermal_properties taken from each other's output
collect_dataSwapped ==
    /\ Ready("collect_data")
    /\ IF ~Has(ctx["phonon_properties"].out, "force_constants")
       THEN Raise("collect_data", AttributeError("force_constants"))
       ELSE /\ LET out == ctx["phonon_properties"].out
                   o1 == Out(outputs, "force_constants", out["force_constants"])
                   o2 == Out(o1, "thermal_properties", out["dos"])
                   o3 == Out(o2, "dos", out["thermal_properties"])
               IN  outputs' = Out(o3, "band_structure", out["band_structure"])
            /\ Return("collect_data")
            /\ UNCHANGED <<ctx, processes, awaitables>>
    /\ UNCHANGED <<inputs, calc>>

collect_data ==
    /\ Ready("collect_data")
    /\ IF ~Has(ctx["phonon_properties"].out, "force_constants")
       THEN Raise("collect_data", AttributeError("force_constants"))
       ELSE /\ LET out == ctx["phonon_properties"].out
                   o1 == Out(outputs, "force_constants", out["force_constants"])
                   o2 == Out(o1, "thermal_properties", out["thermal_properties"])
                   o3 == Out(o2, "dos", out["dos"])
               IN  outputs' = Out(o3, "band_structure", out["band_structure"])
            /\ Return("collect_data")
            /\ UNCHANGED <<ctx, processes, awaitables>>
    /\ UNCHANGED <<inputs, calc>>

run_phonopy_in_workchain ==
    /\ Ready("run_phonopy_in_workchain")
    /\ LET settings == ctx["phonon_settings"]
           force_constants ==
               IF Has(ctx, "force_constants")
               THEN ctx["force_constants"]
               ELSE [produced_from |-> ctx["force_sets"]]
           nac == IF Has(ctx, "nac_data") THEN <<ctx["nac_data"]>> ELSE <<>>
           phonon == [structure |-> ctx["final_structure"],
                      force_constants |-> force_constants, nac_params |-> nac]
           o1 == Out(outputs, "force_constants", force_constants)
           o2 == Out(o1, "thermal_properties", [thermal_properties_of |-> phonon,
                                                 mesh |-> settings["mesh"]])
           o3 == Out(o2, "dos", [dos_of |-> phonon, mesh |-> settings["mesh"]])
       IN  outputs' = Out(o3, "band_structure", [band_structure_of |-> phonon,
                                                 bands |-> ctx["band_paths"]])
    /\ Return("run_phonopy_in_workchain")
    /\ UNCHANGED <<inputs, ctx, processes, awaitables, calc>>

\* ------------------------------------------------ the workchain, as a whole
CalcIdle == [stage |-> "idle"]

Init ==
    /\ inputs \in ValidInputs
    /\ pc = "check_settings"
    /\ ctx = EmptyDict
    /\ processes = EmptyDict
    /\ awaitables = {}
    /\ outputs = <<>>
    /\ error = NoError
    /\ trace = <<>>
    /\ calc = CalcIdle

Next ==
    \/ check_settings
    \/ optimize
    \/ set_unitcell
    \/ create_displacements
    \/ run_force_and_nac_calculations
    \/ ProcessCompletes
    \/ create_force_sets
    \/ create_nac_params
    \/ set_default_outputs
    \/ prepare_phonopy_inputs
    \/ create_phonopy_builder
    \/ run_phonopy_remote
    \/ collect_data
    \/ run_phonopy_in_workchain

Spec == Init /\ [][Next]_vars

\* --------------------------------------------------- runs under fairness
\* The inputs of these runs: phonon_settings and primitive_matrix have no part
\* in what steps run and are left out; a supercell_matrix is of integers.
LiveInputs ==
    { i \in ValidInputs :
        /\ "phonon_settings" \notin i.present
        /\ "primitive_matrix" \notin DOMAIN i.cell_matrices
        /\ "supercell_matrix" \in DOMAIN i.cell_matrices =>
              i.cell_matrices["supercell_matrix"] = [shape |-> "matrix3x3", dtype |-> "int"] }

InitLive ==
    /\ inputs \in LiveInputs
    /\ pc = "check_settings"
    /\ ctx = EmptyDict
    /\ processes = EmptyDict
    /\ awaitables = {}
    /\ outputs = <<>>
    /\ error = NoError
    /\ trace = <<>>
    /\ calc = CalcIdle

\* Every submitted process completes in the end, and the engine runs the next
\* step of the outline once it can.
SpecLive == InitLive /\ [][Next]_vars /\ WF_vars(ProcessCompletes) /\ WF_vars(Next)

\* ------------------------------- create_phonopy_builder on any context
\* The method taken alone: it is entered with any of the four keys it tests
\* present in ctx or not, and the remote steps follow it.
BuilderCtxKeys == {"force_constants", "force_sets", "nac_data", "band_paths"}

BuilderCtxValue(k) ==
    CASE k = "force_constants" -> [data |-> "force_constants_given"]
      [] k = "force_sets" -> [data_sets |-> "data_sets", forces |-> <<"forces_a">>]
      [] k = "nac_data" -> [born_charges |-> "born_charges", epsilon |-> "dielectrics",
                            structure |-> PrimitiveOf("input_structure")]
      [] k = "band_paths" -> [band_paths_of |-> PrimitiveOf("input_structure"),
                              band_resolution |-> 30]

\* inputs with which check_settings lets a remote run pass
BuilderInputs ==
    { i \in ValidInputs :
        /\ i.run_phonopy /\ i.remote_phonopy
        /\ i.present = {"code_string", "options"}
        /\ "supercell_matrix" \in DOMAIN i.cell_matrices
        /\ i.cell_matrices["supercell_matrix"].dtype = "int" }

InitBuilder ==
    /\ inputs \in BuilderInputs
    /\ pc = "create_phonopy_builder"
    /\ \E S \in SUBSET BuilderCtxKeys :
          ctx = Update(Put(Put(EmptyDict, "final_structure", inputs.structure),
                           "phonon_settings", CheckedSettings),
                       [k \in S |-> BuilderCtxValue(k)])
    /\ processes = EmptyDict
    /\ awaitables = {}
    /\ outputs = <<>>
    /\ error = NoError
    /\ trace = <<>>
    /\ calc = CalcIdle

NextBuilder ==
    \/ create_phonopy_builder
    \/ run_phonopy_remote
    \/ ProcessCompletes
    \/ collect_data

SpecBuilder == InitBuilder /\ [][NextBuilder]_vars

\* ------------------------------------ BasePhonopyCalculation (calcs/base.py)
\* _INPUT_NAC
INPUT_NAC == "BORN"

\* the optional input nodes and the keys of settings the method reads
CalcOptionalInputs == {"nac_params", "primitive"}

CalcSettingsChoices == {{"mesh"}, {"mesh", "symmetry_tolerance"}}

CalcInputChoices ==
    [fc_only : BOOLEAN, present : SUBSET CalcOptionalInputs, settings : CalcSettingsChoices]

\* What a subclass's _create_additional_files leaves in the three lists: the
\* command lines of the base class's own flag are never prepared by it.
DefaultParamChoices == {<<"-c", "phonopy.conf">>, <<"--readfc">>}

AdditionalParamChoices == {<<>>, <<"--writefc">>}

SeqsUpTo(S, n) == UNION { [1..k -> S] : k \in 0..n }

CreatedChoices ==
    [retrieve_list : {<<"phonopy.yaml">>, <<"phonopy.yaml", "force_constants.hdf5">>},
     calculation_cmd : SeqsUpTo(DefaultParamChoices, MaxCmds),
     additional_cmd_params : SeqsUpTo(AdditionalParamChoices, MaxCmds)]

\* mutant: fc_only is not looked at
WritesBornIgnoringFcOnly(inp) ==
    /\ "nac_params" \in inp.present
    /\ "primitive" \in inp.present
    /\ "symmetry_tolerance" \in inp.settings

\* the condition under which the BORN file is written
WritesBorn(inp) ==
    /\ ~inp.fc_only
    /\ "nac_params" \in inp.present
    /\ "primitive" \in inp.present
    /\ "symmetry_tolerance" \in inp.settings

\* mutant: the flag put in front of the additional parameters
AppendNacInFront(additional) == [i \in DOMAIN additional |-> <<"--nac">> \o additional[i]]

\* for params in self._additional_cmd_params: params.append('--nac')
AppendNac(additional) == [i \in DOMAIN additional |-> Append(additional[i], "--nac")]

Min(a, b) == IF a < b THEN a ELSE b

\* mutant: the standard output files numbered from 0
CodeInfoOfFromZero(i, calculation_cmd, additional) ==
    [cmdline_params |-> calculation_cmd[i + 1] \o additional[i + 1],
     code_uuid |-> "code_uuid",
     stdout_name |-> <<"output_filename", i>>,
     withmpi |-> FALSE]

\* the CodeInfo of the command with index i (from 0) of enumerate(zip(...))
CodeInfoOf(i, calculation_cmd, additional) ==
    [cmdline_params |-> calculation_cmd[i + 1] \o additional[i + 1],
     code_uuid |-> "code_uuid",
     stdout_name |-> <<"output_filename", i + 1>>,
     withmpi |-> FALSE]

CodesInfo(calculation_cmd, additional) ==
    [j \in 1..Min(Len(calculation_cmd), Len(additional)) |->
        CodeInfoOf(j - 1, calculation_cmd, additional)]

prepare_for_submission ==
    /\ calc.stage = "new"
    /\ LET inp == calc.inputs
           created == calc.created
           born == WritesBorn(inp)
           additional == IF born THEN AppendNac(created.additional_cmd_params)
                                 ELSE created.additional_cmd_params
       IN  calc' = [calc EXCEPT
                      !.stage = "prepared",
                      !.folder = IF born THEN @ \cup {INPUT_NAC} ELSE @,
                      !.additional_cmd_params = additional,
                      !.calcinfo = [uuid |-> "uuid",
                                    local_copy_list |-> <<>>,
                                    remote_copy_list |-> <<>>,
                                    retrieve_list |-> created.retrieve_list,
                                    codes_info |-> CodesInfo(created.calculation_cmd,
                                                             additional)]]
    /\ UNCHANGED wcvars

NoCalcInfo ==
    [uuid |-> "none", local_copy_list |-> <<>>, remote_copy_list |-> <<>>,
     retrieve_list |-> <<>>, codes_info |-> <<>>]

InitCalc ==
    /\ inputs = EmptyDict
    /\ pc = "idle"
    /\ ctx = EmptyDict
    /\ processes = EmptyDict
    /\ awaitables = {}
    /\ outputs = <<>>
    /\ error = NoError
    /\ trace = <<>>
    /\ \E inp \in CalcInputChoices, created \in CreatedChoices :
          calc = [stage |-> "new", inputs |-> inp, created |-> created,
                  folder |-> {"phonopy.conf"},
                  additional_cmd_params |-> <<>>,
                  calcinfo |-> NoCalcInfo]

NextCalc == prepare_for_submission

SpecCalc == InitCalc /\ [][NextCalc]_vars

\* ================================================================== claims
\* vocabulary of the claims, over the state alone
Ran(s) == \E i \in DOMAIN trace : trace[i] = s

TimesRan(s) == Cardinality({ i \in DOMAIN trace : trace[i] = s })

Emitted(n) == \E i \in DOMAIN outputs : outputs[i].name = n

Submitted_(k) == k \in DOMAIN processes

NoProcessRunning == \A k \in DOMAIN processes : processes[k].status = "done"

\* the position of a step in the fixed order; the phonopy stage comes last
StepRank(s) ==
    CASE s = "check_settings" -> 1
      [] s = "optimize" -> 2
      [] s = "set_unitcell" -> 3
      [] s = "create_displacements" -> 4
      [] s = "run_force_and_nac_calculations" -> 5
      [] s = "create_force_sets" -> 6
      [] s = "create_nac_params" -> 7
      [] s = "set_default_outputs" -> 8
      [] s = "prepare_phonopy_inputs" -> 9
      [] s = "create_phonopy_builder" -> 10
      [] s = "run_phonopy_in_workchain" -> 10
      [] s = "run_phonopy_remote" -> 11
      [] s = "collect_data" -> 12

UnconditionalSteps ==
    {"check_settings", "set_unitcell", "create_displacements",
     "run_force_and_nac_calculations", "create_force_sets",
     "set_default_outputs", "prepare_phonopy_inputs"}

C1_InOrder ==
    /\ \A i, j \in DOMAIN trace : i < j => StepRank(trace[i]) < StepRank(trace[j])
    /\ pc = "finished" => \A s \in UnconditionalSteps : TimesRan(s) = 1

\* a step starts only when every process submitted by the steps before it is done
C1_StartsAfterEarlierFinished == (trace' # trace) => NoProcessRunning

\* C1: the executed steps are a subsequence of the fixed order check_settings,
\* optimize, set_unitcell, create_displacements, run_force_and_nac_calculations,
\* create_force_sets, create_nac_params, set_default_outputs,
\* prepare_phonopy_inputs, phonopy stage; in a finished run every unconditional
\* step ran exactly once; no step starts before the earlier steps have finished
\* (the processes they submitted included).
C1_StepOrder == []C1_InOrder /\ [][C1_StartsAfterEarlierFinished]_vars

C1_Witness == pc = "finished" /\ Len(trace) = 12

RemoteSteps == {"create_phonopy_builder", "run_phonopy_remote", "collect_data"}

\* C2: the remote steps run iff run_phonopy and remote_phonopy are both true,
\* run_phonopy_in_workchain runs iff run_phonopy is true and remote_phonopy is
\* false, neither runs when run_phonopy is false, and the two branches are never
\* both executed in one run.
C2_PhonopyBranch ==
    /\ \A s \in RemoteSteps : Ran(s) => inputs.run_phonopy /\ inputs.remote_phonopy
    /\ Ran("run_phonopy_in_workchain") => inputs.run_phonopy /\ ~inputs.remote_phonopy
    /\ pc = "finished" =>
          /\ \A s \in RemoteSteps : Ran(s) <=> (inputs.run_phonopy /\ inputs.remote_phonopy)
          /\ Ran("run_phonopy_in_workchain") <=> (inputs.run_phonopy /\ ~inputs.remote_phonopy)
    /\ ~inputs.run_phonopy => \A s \in RemoteSteps \cup {"run_phonopy_in_workchain"} : ~Ran(s)
    /\ ~(Ran("run_phonopy_in_workchain") /\ \E s \in RemoteSteps : Ran(s))

C2_Witness == pc = "finished" /\ Ran("collect_data") /\ ~Ran("run_phonopy_in_workchain")

\* what the claims say of the inputs, read off the inputs alone
SupercellAbsent == "supercell_matrix" \notin DOMAIN inputs.cell_matrices

SupercellNotInt ==
    /\ ~SupercellAbsent
    /\ inputs.cell_matrices["supercell_matrix"].dtype # "int"

RemoteWithoutCodeOrOptions ==
    /\ inputs.run_phonopy /\ inputs.remote_phonopy
    /\ ("code_string" \notin inputs.present \/ "options" \notin inputs.present)

\* a completed optimization, NAC or phonopy process without the outputs the
\* workchain reads from it
SomeOutputMissing ==
    \/ Has(ctx, "optimized") /\ ~Has(ctx["optimized"].out, "optimized_structure")
    \/ Has(ctx, "born_and_epsilon")
          /\ ~Has(ctx["born_and_epsilon"].out, "output_born_charges")
    \/ Has(ctx, "phonon_properties")
          /\ ~Has(ctx["phonon_properties"].out, "force_constants")

\* the steps that read the outputs of the optimization, NAC or phonopy process
OutputReaders == {"set_unitcell", "create_nac_params", "collect_data"}

\* C3 as stated: every precondition failure is raised as RuntimeError.
C3_AllRuntimeErrors ==
    (error # NoError /\ trace[Len(trace)] \notin OutputReaders) =>
        error.type = "RuntimeError"

\* C3, amended: a failed precondition is raised as RuntimeError, except a
\* supercell_matrix that is not an integer matrix, which is raised as TypeError.
\* No other step raises, but for one reading an output its process lacks.
C3_ErrorTypes ==
    error # NoError =>
        /\ error.type \in {"RuntimeError", "TypeError", "AttributeError"}
        /\ error.type = "AttributeError" <=>
              (trace[Len(trace)] \in OutputReaders /\ SomeOutputMissing)
        /\ error.type = "TypeError" <=>
              (SupercellNotInt /\ trace = <<"check_settings">>)
        /\ error.type = "RuntimeError" =>
              \/ SupercellAbsent /\ trace = <<"check_settings">>
              \/ RemoteWithoutCodeOrOptions /\ trace = <<"check_settings">>
              \/ /\ trace[Len(trace)] = "create_force_sets"
                 /\ error.msg = "Forces could not be retrieved."

C3_Witness == pc = "excepted" /\ error.type = "TypeError"

\* C4: without 'supercell_matrix' in cell_matrices check_settings raises
\* RuntimeError, no process is ever submitted, ctx.phonon_settings is never set
\* and no output is emitted.
C4_NoSupercell ==
    SupercellAbsent =>
        /\ trace # <<>> =>
              /\ pc = "excepted"
              /\ trace = <<"check_settings">>
              /\ error = RuntimeError("supercell_matrix is not found in cell_matrices.")
        /\ processes = EmptyDict
        /\ ~Has(ctx, "phonon_settings")
        /\ outputs = <<>>

C4_Witness == SupercellAbsent /\ pc = "excepted"

\* the errors that the absence of code_string or options causes
CodeOrOptionsErrors ==
    {RuntimeError("code_string and options have to be specified."),
     AttributeError("code_string"), AttributeError("options")}

\* C5 as stated: with run_phonopy and remote_phonopy true and code_string or
\* options absent check_settings raises RuntimeError before any process is
\* submitted; otherwise their absence never causes an error.
C5_RequiredWhenRemote ==
    /\ (RemoteWithoutCodeOrOptions /\ trace # <<>>) =>
          /\ pc = "excepted" /\ trace = <<"check_settings">>
          /\ error.type = "RuntimeError"
          /\ processes = EmptyDict
    /\ ~(inputs.run_phonopy /\ inputs.remote_phonopy) => error \notin CodeOrOptionsErrors

\* C5, amended: in that case check_settings fails before any process is
\* submitted, with RuntimeError unless supercell_matrix is given and is not an
\* integer matrix, which is raised first, as TypeError; when run_phonopy or
\* remote_phonopy is false the absence of code_string and options never causes
\* an error.
C5_RequiredWhenRemoteAmended ==
    /\ (RemoteWithoutCodeOrOptions /\ trace # <<>>) =>
          /\ pc = "excepted" /\ trace = <<"check_settings">>
          /\ error.type = IF SupercellNotInt THEN "TypeError" ELSE "RuntimeError"
          /\ (~SupercellAbsent /\ ~SupercellNotInt) =>
                error = RuntimeError("code_string and options have to be specified.")
          /\ processes = EmptyDict
    /\ ~(inputs.run_phonopy /\ inputs.remote_phonopy) => error \notin CodeOrOptionsErrors

C5_Witness ==
    /\ RemoteWithoutCodeOrOptions
    /\ error = RuntimeError("code_string and options have to be specified.")

\* the force calculations of the run, by the labels structure_0 .. structure_{N-1}
N_ == ctx["disp_dataset"]["number_of_displacements"]

ForceKeys == { k \in DOMAIN processes : processes[k].kind = "forces" }

HasFinalForces(k) ==
    /\ Has(ctx, k)
    /\ "output_forces" \in DOMAIN ctx[k].out
    /\ "final" \in DOMAIN ctx[k].out["output_forces"]

LateOutputs ==
    {"final_structure", "force_sets", "nac_data", "force_constants",
     "thermal_properties", "dos", "band_structure"}

\* C6: create_force_sets succeeds only if each of the N force calculations has
\* an 'output_forces' with a 'final' array; otherwise it raises
\* RuntimeError('Forces could not be retrieved.'), ctx.force_sets is not set and
\* none of final_structure, force_sets, nac_data, force_constants,
\* thermal_properties, dos, band_structure is emitted.
C6_ForcesRetrieved ==
    Ran("create_force_sets") =>
        IF \A i \in 0..(N_ - 1) : HasFinalForces(StructureLabel(i))
        THEN /\ Has(ctx, "force_sets")
             /\ error # NoError => trace[Len(trace)] # "create_force_sets"
        ELSE /\ pc = "excepted"
             /\ error = RuntimeError("Forces could not be retrieved.")
             /\ trace[Len(trace)] = "create_force_sets"
             /\ ~Has(ctx, "force_sets")
             /\ \A n \in LateOutputs : ~Emitted(n)

C6_Witness ==
    /\ error = RuntimeError("Forces could not be retrieved.")
    /\ N_ >= 2
    /\ \E i \in 0..(N_ - 1) : HasFinalForces(StructureLabel(i))

\* C7: run_force_and_nac_calculations submits one force calculation per
\* displaced supercell, labelled structure_0 .. structure_{N-1}, all in that one
\* step; create_force_sets is not executed before each of them, and the NAC
\* calculation if submitted, has completed, in whatever order they complete.
C7_FanOut ==
    /\ ~Ran("run_force_and_nac_calculations") => ForceKeys = {}
    /\ Ran("run_force_and_nac_calculations") =>
          /\ ForceKeys = { StructureLabel(i) : i \in 0..(N_ - 1) }
          /\ Cardinality(ForceKeys) = N_
          /\ \A i \in 0..(N_ - 1) :
                processes[StructureLabel(i)].inp.structure =
                    SupercellOf(ctx["final_structure"], i)
    /\ Ran("create_force_sets") =>
          \A k \in ForceKeys \cup ({"born_and_epsilon"} \cap DOMAIN processes) :
              processes[k].status = "done"

C7_Witness ==
    /\ Ran("create_force_sets")
    /\ N_ >= 2
    /\ Submitted_("born_and_epsilon")

\* C8: the optimization is submitted iff optimize is true; if it was,
\* final_structure is the optimized structure it returned and optimized_data is
\* emitted; if not, final_structure is the input structure and optimized_data
\* is never emitted.
C8_Optimize ==
    /\ Submitted_("optimized") => inputs.optimize
    /\ Ran("set_unitcell") => (Submitted_("optimized") <=> inputs.optimize)
    /\ (Ran("set_unitcell") /\ error # AttributeError("optimized_structure")) =>
          IF Submitted_("optimized")
          THEN /\ ctx["final_structure"] = "optimized_structure"
               /\ ctx["final_structure"] = ctx["optimized"].out["optimized_structure"]
               /\ Emitted("optimized_data")
          ELSE /\ ctx["final_structure"] = inputs.structure
               /\ ~Emitted("optimized_data")
    /\ Emitted("optimized_data") => Submitted_("optimized")
    /\ \A i \in DOMAIN outputs :
          outputs[i].name = "final_structure" =>
              outputs[i].value = IF inputs.optimize THEN "optimized_structure"
                                                    ELSE inputs.structure

C8_Witness ==
    /\ pc = "finished" /\ inputs.optimize
    /\ Emitted("optimized_data") /\ Emitted("final_structure")

\* C9: the Born-charge calculation is submitted iff is_nac, create_nac_params
\* runs iff is_nac, nac_data is emitted iff is_nac; with is_nac false ctx never
\* holds born_and_epsilon or nac_data.
C9_Nac ==
    /\ Submitted_("born_and_epsilon") => inputs.is_nac
    /\ Ran("run_force_and_nac_calculations") =>
          (Submitted_("born_and_epsilon") <=> inputs.is_nac)
    /\ Ran("create_nac_params") => inputs.is_nac
    /\ Emitted("nac_data") => inputs.is_nac
    /\ Ran("set_default_outputs") =>
          /\ Ran("create_nac_params") <=> inputs.is_nac
          /\ Emitted("nac_data") <=> inputs.is_nac
    /\ ~inputs.is_nac => ~Has(ctx, "born_and_epsilon") /\ ~Has(ctx, "nac_data")

C9_Witness == pc = "finished" /\ inputs.is_nac /\ Emitted("nac_data")

\* the command lines of the returned CalcInfo
HasNac(codeinfo) ==
    \E i \in DOMAIN codeinfo.cmdline_params : codeinfo.cmdline_params[i] = "--nac"

BornWritten == "BORN" \in calc.folder

\* C10: the BORN file is written iff fc_only is false, nac_params and primitive
\* are given and settings has 'symmetry_tolerance'; a command line holds --nac
\* iff the BORN file is written; with fc_only true there is no BORN file and no
\* --nac.
C10_BornAndNac ==
    /\ calc.stage = "new" => ~BornWritten
    /\ calc.stage = "prepared" =>
          /\ BornWritten <=>
                /\ ~calc.inputs.fc_only
                /\ "nac_params" \in calc.inputs.present
                /\ "primitive" \in calc.inputs.present
                /\ "symmetry_tolerance" \in calc.inputs.settings
          /\ \A i \in DOMAIN calc.calcinfo.codes_info :
                HasNac(calc.calcinfo.codes_info[i]) <=> BornWritten
          /\ calc.inputs.fc_only =>
                /\ ~BornWritten
                /\ \A i \in DOMAIN calc.calcinfo.codes_info :
                      ~HasNac(calc.calcinfo.codes_info[i])

C10_Witness ==
    /\ calc.stage = "prepared" /\ BornWritten
    /\ Len(calc.calcinfo.codes_info) >= 2
    /\ \A i \in DOMAIN calc.calcinfo.codes_info : HasNac(calc.calcinfo.codes_info[i])

TimesEmitted(n) == Cardinality({ i \in DOMAIN outputs : outputs[i].name = n })

PhononOutputs == {"force_constants", "thermal_properties", "dos", "band_structure"}

\* C11: a run that does not fail emits final_structure and force_sets, also
\* with run_phonopy false; force_constants, thermal_properties, dos and
\* band_structure are emitted iff run_phonopy is true, each exactly once, and
\* with the default of run_phonopy none of them is emitted.
C11_Outputs ==
    /\ \A n \in PhononOutputs : Emitted(n) => inputs.run_phonopy
    /\ \A n \in PhononOutputs : TimesEmitted(n) <= 1
    /\ pc = "finished" =>
          /\ Emitted("final_structure") /\ Emitted("force_sets")
          /\ \A n \in PhononOutputs :
                TimesEmitted(n) = IF inputs.run_phonopy THEN 1 ELSE 0
    /\ inputs.run_phonopy = InputDefaults.run_phonopy =>
          \A n \in PhononOutputs : ~Emitted(n)

C11_Witness ==
    /\ pc = "finished" /\ inputs.run_phonopy
    /\ \A n \in PhononOutputs : TimesEmitted(n) = 1
    /\ Emitted("final_structure") /\ Emitted("force_sets")

UserGaveSettings == "phonon_settings" \in inputs.present

UserGave(k) == UserGaveSettings /\ k \in DOMAIN inputs.phonon_settings

FiveKeys == {"supercell_matrix", "primitive_matrix", "mesh", "distance", "symmetry_tolerance"}

\* C12: check_settings fills in the defaults: mesh is [20, 20, 20] when
\* phonon_settings is absent or has no 'mesh', a mesh of the user is kept;
\* primitive_matrix is the 3x3 identity when cell_matrices has none; after a
\* successful check_settings ctx.phonon_settings holds the keys
\* supercell_matrix, primitive_matrix, mesh, distance, symmetry_tolerance.
C12_Defaults ==
    /\ Has(ctx, "phonon_settings") <=>
          (Ran("check_settings") /\ ~(pc = "excepted" /\ Len(trace) = 1))
    /\ Has(ctx, "phonon_settings") =>
          LET ps == ctx["phonon_settings"]
          IN  /\ FiveKeys \subseteq DOMAIN ps
              /\ ps["mesh"] = IF UserGave("mesh") THEN inputs.phonon_settings["mesh"]
                                                  ELSE <<20, 20, 20>>
              /\ "primitive_matrix" \notin DOMAIN inputs.cell_matrices =>
                    ps["primitive_matrix"].astype_float_tolist =
                        <<<<1, 0, 0>>, <<0, 1, 0>>, <<0, 0, 1>>>>
              /\ "primitive_matrix" \in DOMAIN inputs.cell_matrices =>
                    ps["primitive_matrix"].astype_float_tolist =
                        inputs.cell_matrices["primitive_matrix"]

C12_Witness ==
    /\ Has(ctx, "phonon_settings")
    /\ UserGave("mesh")
    /\ "primitive_matrix" \notin DOMAIN inputs.cell_matrices
    /\ ctx["phonon_settings"]["mesh"] = <<8, 8, 8>>

\* the number of commands that got a CodeInfo: zip stops at the shorter list
NumCommands ==
    IF Len(calc.created.calculation_cmd) < Len(calc.created.additional_cmd_params)
    THEN Len(calc.created.calculation_cmd)
    ELSE Len(calc.created.additional_cmd_params)

\* C13: in the returned CalcInfo the i-th command (from 0) has a CodeInfo whose
\* cmdline_params is its default parameters followed by its additional
\* parameters (as they stand when the CalcInfo is built), whose stdout_name is
\* the output filename followed by i+1, and whose withmpi is false;
\* retrieve_list is the list filled by _create_additional_files and
\* local_copy_list and remote_copy_list are empty.
C13_CalcInfo ==
    calc.stage = "prepared" =>
        LET info == calc.calcinfo
        IN  /\ Len(info.codes_info) = NumCommands
            /\ \A i \in 0..(NumCommands - 1) :
                  /\ info.codes_info[i + 1].cmdline_params =
                        calc.created.calculation_cmd[i + 1] \o calc.additional_cmd_params[i + 1]
                  /\ SubSeq(info.codes_info[i + 1].cmdline_params,
                            1, Len(calc.created.calculation_cmd[i + 1])
                                 + Len(calc.created.additional_cmd_params[i + 1])) =
                        calc.created.calculation_cmd[i + 1]
                            \o calc.created.additional_cmd_params[i + 1]
                  /\ info.codes_info[i + 1].stdout_name = <<"output_filename", i + 1>>
                  /\ info.codes_info[i + 1].withmpi = FALSE
            /\ info.retrieve_list = calc.created.retrieve_list
            /\ info.local_copy_list = <<>>
            /\ info.remote_copy_list = <<>>

C13_Witness ==
    /\ calc.stage = "prepared"
    /\ Len(calc.calcinfo.codes_info) = 2
    /\ calc.calcinfo.codes_info[2].stdout_name = <<"output_filename", 2>>
    /\ Len(calc.calcinfo.codes_info[2].cmdline_params) >= 3

\* C14: when create_force_sets succeeds, entry i of the forces of force_sets
\* is the 'final' array of the calculation labelled structure_i, for i in
\* 0..N-1: force_sets is a function of what the calculations returned, whatever
\* the order in which they (and the NAC calculation) completed.
C14_ForceOrder ==
    Has(ctx, "force_sets") =>
        /\ Len(ctx["force_sets"].forces) = N_
        /\ \A i \in 0..(N_ - 1) :
              /\ processes[StructureLabel(i)].status = "done"
              /\ ctx["force_sets"].forces[i + 1] =
                    ctx[StructureLabel(i)].out["output_forces"]["final"]
        /\ ctx["force_sets"].data_sets = ctx["disp_dataset"]["data_sets"]

C14_Witness ==
    /\ Has(ctx, "force_sets")
    /\ N_ >= 2
    /\ ctx["force_sets"].forces[1] # ctx["force_sets"].forces[2]
    /\ Submitted_("born_and_epsilon")

\* the structure the optimization returned
OptimizedStructure == ctx["optimized"].out["optimized_structure"]

\* C15: with optimize true no force or NAC calculation is submitted before the
\* optimization has completed; the displaced supercells and the primitive cell
\* are made from the optimized structure, not the input structure; the output
\* final_structure and the structure given to the phonopy stage are that same
\* optimized structure.
C15_OptimizedFirst ==
    inputs.optimize =>
        /\ \A k \in DOMAIN processes :
              processes[k].kind \in {"forces", "nac"} =>
                  /\ Submitted_("optimized")
                  /\ processes["optimized"].status = "done"
                  /\ Has(ctx, "optimized")
        /\ Has(ctx, "final_structure") =>
              /\ ctx["final_structure"] = OptimizedStructure
              /\ ctx["final_structure"] # inputs.structure
        /\ Has(ctx, "disp_dataset") =>
              /\ ctx["primitive_structure"].primitive_of = OptimizedStructure
              /\ \A i \in 0..(N_ - 1) :
                    ctx["disp_dataset"][StructureLabel(i)].supercell_of = OptimizedStructure
        /\ \A k \in DOMAIN processes :
              /\ processes[k].kind = "forces" =>
                    processes[k].inp.structure.supercell_of = OptimizedStructure
              /\ processes[k].kind = "nac" =>
                    processes[k].inp.structure.primitive_of = OptimizedStructure
              /\ processes[k].kind = "phonopy" =>
                    processes[k].inp["structure"] = OptimizedStructure
        /\ Has(ctx, "phonopy_builder") =>
              ctx["phonopy_builder"]["structure"] = OptimizedStructure
        /\ \A i \in DOMAIN outputs :
              /\ outputs[i].name = "final_structure" =>
                    outputs[i].value = OptimizedStructure
              /\ (outputs[i].name = "dos" /\ ~inputs.remote_phonopy) =>
                    outputs[i].value.dos_of.structure = OptimizedStructure

C15_Witness ==
    /\ inputs.optimize /\ pc = "finished"
    /\ Submitted_("phonon_properties")
    /\ Submitted_("born_and_epsilon")
    /\ Emitted("final_structure")

PhonopyKeys == { k \in DOMAIN processes : processes[k].kind = "phonopy" }

\* C16: on the remote branch exactly one phonopy calculation is submitted, and
\* only after force_sets was assembled and the default outputs emitted;
\* collect_data runs only after it has completed, and the force_constants,
\* thermal_properties, dos and band_structure it emits are the outputs of that
\* calculation.
C16_Remote ==
    /\ PhonopyKeys \subseteq {"phonon_properties"}
    /\ TimesRan("run_phonopy_remote") <= 1
    /\ Ran("run_phonopy_remote") <=> Submitted_("phonon_properties")
    /\ (pc = "finished" /\ inputs.run_phonopy /\ inputs.remote_phonopy) =>
          Cardinality(PhonopyKeys) = 1
    /\ Submitted_("phonon_properties") =>
          /\ Has(ctx, "force_sets")
          /\ Ran("create_force_sets") /\ Ran("set_default_outputs")
          /\ Emitted("final_structure") /\ Emitted("force_sets")
          /\ processes["phonon_properties"].inp = ctx["phonopy_builder"]
    /\ Ran("collect_data") =>
          /\ processes["phonon_properties"].status = "done"
          /\ \A n \in PhononOutputs :
                /\ TimesEmitted(n) = IF pc = "finished" THEN 1 ELSE 0
                /\ \A i \in DOMAIN outputs :
                      outputs[i].name = n =>
                          outputs[i].value = ctx["phonon_properties"].out[n]

C16_Witness ==
    /\ Ran("collect_data") /\ pc = "finished"
    /\ Emitted("band_structure")
    /\ inputs.is_nac

\* C17: create_phonopy_builder passes exactly one of force_constants and
\* force_sets: force_constants when ctx holds it, force_sets otherwise, never
\* both; with neither in ctx it raises RuntimeError, ctx.phonopy_builder is not
\* set and no remote calculation is submitted; nac_data is passed iff ctx holds
\* nac_data and bands iff ctx holds band_paths.
C17_Builder ==
    /\ ~Ran("create_phonopy_builder") => ~Has(ctx, "phonopy_builder")
    /\ Ran("create_phonopy_builder") =>
          IF ~Has(ctx, "force_constants") /\ ~Has(ctx, "force_sets")
          THEN /\ pc = "excepted"
               /\ error = RuntimeError("Force sets and force constants were not found.")
               /\ ~Has(ctx, "phonopy_builder")
               /\ processes = EmptyDict
          ELSE LET b == ctx["phonopy_builder"]
               IN  /\ Has(b, "force_constants") <=> Has(ctx, "force_constants")
                   /\ Has(b, "force_sets") <=> ~Has(ctx, "force_constants")
                   /\ ~(Has(b, "force_constants") /\ Has(b, "force_sets"))
                   /\ Has(b, "force_constants") => b["force_constants"] = ctx["force_constants"]
                   /\ Has(b, "force_sets") => b["force_sets"] = ctx["force_sets"]
                   /\ Has(b, "nac_data") <=> Has(ctx, "nac_data")
                   /\ Has(b, "nac_data") => b["nac_data"] = ctx["nac_data"]
                   /\ Has(b, "bands") <=> Has(ctx, "band_paths")
                   /\ Has(b, "bands") => b["bands"] = ctx["band_paths"]

C17_Witness ==
    /\ Ran("create_phonopy_builder")
    /\ Has(ctx, "force_constants") /\ Has(ctx, "force_sets")
    /\ Has(ctx, "phonopy_builder")
    /\ Has(ctx["phonopy_builder"], "force_constants")
    /\ ~Has(ctx["phonopy_builder"], "force_sets")
    /\ ~Has(ctx, "band_paths")

\* C18: a run that reaches create_phonopy_builder or run_phonopy_in_workchain
\* has force_sets in ctx and no force_constants; the error 'Force sets and
\* force constants were not found.' is never raised; both branches take the
\* force constants from the assembled force sets.
C18_ForceSetsOnly ==
    /\ ~Has(ctx, "force_constants")
    /\ (\/ pc \in {"create_phonopy_builder", "run_phonopy_in_workchain"}
        \/ Ran("create_phonopy_builder")
        \/ Ran("run_phonopy_in_workchain")) => Has(ctx, "force_sets")
    /\ error # RuntimeError("Force sets and force constants were not found.")
    /\ Ran("create_phonopy_builder") =>
          /\ Has(ctx, "phonopy_builder")
          /\ Has(ctx["phonopy_builder"], "force_sets")
          /\ ~Has(ctx["phonopy_builder"], "force_constants")
          /\ ctx["phonopy_builder"]["force_sets"] = ctx["force_sets"]
    /\ Ran("run_phonopy_in_workchain") =>
          \A i \in DOMAIN outputs :
              outputs[i].name = "force_constants" =>
                  outputs[i].value = [produced_from |-> ctx["force_sets"]]

C18_Witness ==
    /\ Ran("create_phonopy_builder") /\ pc = "finished"
    /\ Has(ctx["phonopy_builder"], "force_sets")

OverwrittenKeys == {"supercell_matrix", "primitive_matrix", "distance", "symmetry_tolerance"}

C19_FromInputs ==
    Has(ctx, "phonon_settings") =>
        LET ps == ctx["phonon_settings"]
            sc == inputs.cell_matrices["supercell_matrix"]
        IN  /\ ps["distance"] = [float |-> inputs.distance]
            /\ ps["symmetry_tolerance"] = [float |-> inputs.symmetry_tolerance]
            /\ ps["supercell_matrix"].tolist.dtype = sc.dtype
            /\ IF sc.shape = "vector3"
               THEN ps["supercell_matrix"].tolist.diag_of = sc
               ELSE ps["supercell_matrix"].tolist.array_of = sc
            /\ ps["primitive_matrix"].astype_float_tolist =
                  IF "primitive_matrix" \in DOMAIN inputs.cell_matrices
                  THEN inputs.cell_matrices["primitive_matrix"]
                  ELSE <<<<1, 0, 0>>, <<0, 1, 0>>, <<0, 0, 1>>>>
            /\ UserGaveSettings =>
                  \A k \in (DOMAIN inputs.phonon_settings) \ OverwrittenKeys :
                      /\ k \in DOMAIN ps
                      /\ ps[k] = inputs.phonon_settings[k]
            /\ DOMAIN ps =
                  (IF UserGaveSettings THEN DOMAIN inputs.phonon_settings ELSE {})
                      \cup OverwrittenKeys \cup {"mesh"}

\* C19: in ctx.phonon_settings the keys supercell_matrix, primitive_matrix,
\* distance and symmetry_tolerance come from the inputs cell_matrices, distance
\* and symmetry_tolerance, also when the user's phonon_settings gives a value
\* for one of them; every other key of the user's phonon_settings is carried
\* over unchanged; the input phonon_settings is not modified.
C19_SettingsFrame == []C19_FromInputs /\ [][inputs' = inputs]_vars

C19_Witness ==
    /\ Has(ctx, "phonon_settings")
    /\ UserGave("distance") /\ UserGave("is_symmetry")
    /\ ctx["phonon_settings"]["distance"] # inputs.phonon_settings["distance"]
    /\ inputs.phonon_settings["distance"] = [user |-> "distance"]
    /\ ctx["phonon_settings"]["is_symmetry"] = [user |-> "is_symmetry"]

\* a force calculation that completed without retrievable forces
SomeForcesUnretrievable ==
    \E k \in ForceKeys : Has(ctx, k) /\ ~HasFinalForces(k)

\* the inputs pass check_settings
InputsPass ==
    /\ "supercell_matrix" \in DOMAIN inputs.cell_matrices
    /\ inputs.cell_matrices["supercell_matrix"].dtype = "int"
    /\ (inputs.run_phonopy /\ inputs.remote_phonopy) =>
          {"code_string", "options"} \subseteq inputs.present

C20_NoStrayProcess ==
    /\ awaitables \subseteq { k \in DOMAIN processes : processes[k].status = "running" }
    /\ pc = "finished" =>
          /\ NoProcessRunning
          /\ TimesEmitted("final_structure") = 1 /\ TimesEmitted("force_sets") = 1

\* the statement as the specification has it: only the force calculations
\* are required to provide what the workchain reads
C20_Terminates ==
    /\ []C20_NoStrayProcess
    /\ InputsPass => <>(pc = "finished" \/ SomeForcesUnretrievable)

\* C20: with inputs that pass check_settings, every submitted process
\* completing, all N force calculations returning retrievable forces and the
\* optimization, NAC and phonopy processes returning the outputs the steps
\* read, the workchain finishes in the end, having emitted final_structure and
\* force_sets; it never waits for a process it did not submit and never
\* finishes while a process it submitted is running.
C20_TerminatesAmended ==
    /\ []C20_NoStrayProcess
    /\ InputsPass =>
          <>(pc = "finished" \/ SomeForcesUnretrievable \/ SomeOutputMissing)

C20_Witness ==
    /\ pc = "finished"
    /\ {"optimized", "born_and_epsilon", "phonon_properties"} \subseteq DOMAIN processes
    /\ Cardinality(DOMAIN processes) = 3 + MaxDisp
    /\ Emitted("force_sets")

\* how often --nac stands in a command line
TimesNac(params) == Cardinality({ j \in DOMAIN params : params[j] = "--nac" })

\* C21: when the BORN file is written, each command line of the returned
\* CalcInfo holds --nac exactly once, as its last parameter; when it is not
\* written, no command line holds --nac.
C21_NacLast ==
    calc.stage = "prepared" =>
        \A i \in DOMAIN calc.calcinfo.codes_info :
            LET params == calc.calcinfo.codes_info[i].cmdline_params
            IN  IF INPUT_NAC \in calc.folder
                THEN /\ Len(params) >= 1
                     /\ params[Len(params)] = "--nac"
                     /\ TimesNac(params) = 1
                ELSE TimesNac(params) = 0

C21_Witness ==
    /\ calc.stage = "prepared"
    /\ INPUT_NAC \in calc.folder
    /\ Len(calc.calcinfo.codes_info) = MaxCmds
    /\ \E i \in DOMAIN calc.calcinfo.codes_info :
          Len(calc.calcinfo.codes_info[i].cmdline_params) >= 3

====
